---- MODULE Spec2Model ----
(***************************************************************************)
(* Model of the incremental synchronisation engine of                      *)
(* scripts/pipeline.py: the state store (load_state / save_state), the     *)
(* map differ (compare_maps), the deletion hysteresis                      *)
(* (update_deletion_candidates), the batch orchestrator (batch_scrape)     *)
(* and the driver (map_website + main).                                    *)
(*                                                                         *)
(* Abstractions.  A URL is one of "A", "B", "C", ordered by Rank (the      *)
(* lexicographic order sorted() uses).  A page is the pair of its          *)
(* sourceURL and the remote job that produced it.  The sha256 batch id of   *)
(* get_batch_id is modelled by its pre-image, the sorted URL list (the     *)
(* hash is taken to be injective).  Timestamps are left out.  The tenacity *)
(* retry wrapper is folded into each remote call here: a call returns or   *)
(* raises its final error.  Writing map-urls.txt is one step.              *)
(***************************************************************************)
EXTENDS Integers, Sequences, FiniteSets, TLC

\* ---------------------------------------------------------------- bounds
\* URLs per batch request (100 in the source), scaled down.
BATCH_SIZE == 1
\* Jobs the remote service accepts before every further submit fails.
MaxJobs == 2
\* MAX_POLL_TIME / POLL_INTERVAL (120 in the source), scaled down.
MaxPollTicks == 2
\* write() calls that json.dump needs to put a document into a file.
WriteChunks == 2
\* Longest URL list that compare_maps and get_batch_id are called with.
MaxLen == 2

\* ------------------------------------------------------- program constants
DELETION_MISS_THRESHOLD == 3

\* ----------------------------------------------------------------- URLs
Rank(u) == CASE u = "A" -> 1 [] u = "B" -> 2 [] u = "C" -> 3

SeqToSet(s) == {s[i] : i \in 1..Len(s)}

MinOf(S) == CHOOSE u \in S : \A v \in S : Rank(u) <= Rank(v)

\* sorted(S) for a set of URLs
RECURSIVE Sorted(_)
Sorted(S) == IF S = {} THEN <<>> ELSE <<MinOf(S)>> \o Sorted(S \ {MinOf(S)})

\* sorted(urls) for a list: duplicates stay
RECURSIVE InsertSorted(_, _)
InsertSorted(u, s) ==
    IF s = <<>> THEN <<u>>
    ELSE IF Rank(u) <= Rank(Head(s)) THEN <<u>> \o s
    ELSE <<Head(s)>> \o InsertSorted(u, Tail(s))

RECURSIVE SortedList(_)
SortedList(urls) ==
    IF urls = <<>> THEN <<>> ELSE InsertSorted(Head(urls), SortedList(Tail(urls)))

URLs == {"A", "B", "C"}
\* Every URL list of at most MaxLen entries, duplicates included
URLLists == UNION {[1..n -> URLs] : n \in 0..MaxLen}

\* The URL lists the discovery service returns: in the general model a site
\* whose one page comes and goes, in the scenario the lists of its four runs.
SiteLists == {<<>>, <<"A">>}
Scenario == << <<"A", "B", "C">>, <<"A", "C">>, <<"A", "C">>, <<"A", "C">> >>

\* A function with key k set to v (a dict assignment d[k] = v)
Put(f, k, v) == [x \in (DOMAIN f) \cup {k} |-> IF x = k THEN v ELSE f[x]]
\* A function without the keys in K (del d[k])
Drop(f, K) == [x \in (DOMAIN f) \ K |-> f[x]]
EmptyMap == [x \in {} |-> 0]

\* ---------------------------------------------------------- state store
\* load_state's default document {"map": {}, "batches": {}}
NoMap == [present |-> FALSE, urls |-> <<>>]
EmptyState == [map |-> NoMap, batches |-> <<>>, deletion_candidates |-> EmptyMap]

\* state.json and the temporary file save_state writes
StatePath == "state.json"
\* A save_state that opens state.json itself for writing
in_place(state_path) == state_path
temp_path(state_path) == "state.json.tmp"
Paths == {StatePath, temp_path(StatePath)}

\* What a path holds: nothing, the first `written` chunks of the JSON text
\* of a document, or something that is not the text of a state document.
AbsentFile == [kind |-> "missing", doc |-> EmptyState, written |-> 0]
Text(doc, n) == [kind |-> "text", doc |-> doc, written |-> n]
Complete(doc) == Text(doc, WriteChunks)
Partial(file) == file.kind = "text" /\ file.written < WriteChunks
\* unreadable: open() raises OSError;  bad_encoding: bytes that are not
\* UTF-8;  bad_json: UTF-8 text that is not JSON;  not_dict: JSON that is
\* not an object;  odd_dict: a JSON object that is not a state document,
\* such as {"batches": []}
DamagedKinds == {"unreadable", "bad_encoding", "bad_json", "not_dict", "odd_dict"}
Damaged(kind) == [kind |-> kind, doc |-> EmptyState, written |-> 0]

\* The documents save_state is called with
StoreDocs ==
    {EmptyState,
     [EmptyState EXCEPT !.map = [present |-> TRUE, urls |-> <<"A">>]],
     [EmptyState EXCEPT !.deletion_candidates = [u \in {"A"} |->
         [consecutive_misses |-> 1, first_missing_at |-> 0, last_missing_at |-> 0]]]}

\* The exception open() or json.load raises on a file ("": none)
Raises(file) ==
    CASE file.kind = "unreadable" -> "OSError"
      [] file.kind = "bad_encoding" -> "UnicodeDecodeError"
      [] file.kind = "bad_json" -> "JSONDecodeError"
      [] Partial(file) -> "JSONDecodeError"
      [] OTHER -> ""

\* The exceptions load_state handles
Caught == {"JSONDecodeError", "OSError"}

\* What a load_state call does: raise, or return a value (a state
\* document, or the JSON object of another shape it found)
Returned(doc) == [raised |-> "", value |-> "state", doc |-> doc]
ReturnedAsIs == [raised |-> "", value |-> "odd_dict", doc |-> EmptyState]
Raised(error) == [raised |-> error, value |-> "none", doc |-> EmptyState]
NotLoaded == [raised |-> "", value |-> "none", doc |-> EmptyState]

load_state(file) ==
    IF file.kind = "missing" THEN Returned(EmptyState)
    ELSE IF Raises(file) # ""
    THEN IF Raises(file) \in Caught THEN Returned(EmptyState) ELSE Raised(Raises(file))
    ELSE IF file.kind = "not_dict" THEN Returned(EmptyState)
    ELSE IF file.kind = "odd_dict" THEN ReturnedAsIs
    ELSE Returned(file.doc)

\* os.replace(src, dst)
Replace(fs, src, dst) ==
    IF src = dst THEN fs
    ELSE [fs EXCEPT ![dst] = fs[src], ![src] = AbsentFile]

\* A get_batch_id that hashes the URLs in the order given
unsorted_id(urls) == urls
\* get_batch_id: the hash of "\n".join(sorted(urls)), modelled by the sorted
\* list itself
get_batch_id(urls) == SortedList(urls)

\* --------------------------------------------------------------- differ
\* A compare_maps that reports nothing as deleted
compare_no_deleted(new_urls, cached_urls) ==
    [new |-> Sorted(SeqToSet(new_urls) \ SeqToSet(cached_urls)),
     unchanged |-> Sorted(SeqToSet(new_urls) \cap SeqToSet(cached_urls)),
     deleted |-> <<>>]

compare_maps(new_urls, cached_urls) ==
    LET new_set == SeqToSet(new_urls)
        cached_set == SeqToSet(cached_urls)
    IN [new |-> Sorted(new_set \ cached_set),
        unchanged |-> Sorted(new_set \cap cached_set),
        deleted |-> Sorted(cached_set \ new_set)]

\* ----------------------------------------------------------- hysteresis
\* A step 1 that clears nothing
keep_returned(candidates, active_urls) == candidates

\* step 1: clear the candidates that returned to the map
ClearReturned(candidates, active_urls) ==
    Drop(candidates, SeqToSet(active_urls))

\* step 2: one more miss for every currently absent URL, at the time `now`
RECURSIVE CountMisses(_, _, _)
CountMisses(candidates, deleted_urls, now) ==
    IF deleted_urls = <<>> THEN candidates
    ELSE LET url == Head(deleted_urls)
             c == IF url \in DOMAIN candidates
                  THEN [candidates[url] EXCEPT
                          !.consecutive_misses = @ + 1,
                          !.last_missing_at = now]
                  ELSE [consecutive_misses |-> 1,
                        first_missing_at |-> now,
                        last_missing_at |-> now]
         IN CountMisses(Put(candidates, url, c), Tail(deleted_urls), now)

\* step 3: the URLs that hit the threshold
HitThreshold(candidates) ==
    {url \in DOMAIN candidates :
        candidates[url].consecutive_misses >= DELETION_MISS_THRESHOLD}

\* update_deletion_candidates: the new candidates and the returned list
update_deletion_candidates(candidates, deleted_urls, active_urls, now) ==
    LET counted == CountMisses(ClearReturned(candidates, active_urls), deleted_urls, now)
        urls_to_delete == HitThreshold(counted)
    IN [candidates |-> Drop(counted, urls_to_delete),
        urls_to_delete |-> urls_to_delete]

\* ------------------------------------------------- batches (ordered dict)
\* state["batches"] is a dict in insertion order: a sequence of records,
\* each carrying its key batch_id.  firecrawl_batch_id 0 and error "" stand
\* for a key that is absent from the record.
NoBatch == [batch_id |-> <<>>, firecrawl_batch_id |-> 0, status |-> "none",
            pages |-> <<>>, error |-> ""]

HasBatch(batches, id) == \E i \in 1..Len(batches) : batches[i].batch_id = id

\* state["batches"].get(batch_id, {})
BatchGet(batches, id) ==
    IF HasBatch(batches, id)
    THEN batches[CHOOSE i \in 1..Len(batches) : batches[i].batch_id = id]
    ELSE NoBatch

\* An assignment that leaves the record alone in the dict
only_record(batches, rec) == <<rec>>

\* state["batches"][batch_id] = rec
BatchPut(batches, rec) ==
    IF HasBatch(batches, rec.batch_id)
    THEN [i \in 1..Len(batches) |->
            IF batches[i].batch_id = rec.batch_id THEN rec ELSE batches[i]]
    ELSE Append(batches, rec)

\* The pages a remote job returns for its URLs, in order
JobPages(job, urls) ==
    [i \in 1..Len(urls) |-> [sourceURL |-> urls[i], job |-> job]]

PageURLs(pages) == {pages[i].sourceURL : i \in 1..Len(pages)}

\* The BATCH_SIZE the program runs with: a constant of the module, the same
\* in every state of a behaviour
VARIABLE batch_size

\* urls[i : i + BATCH_SIZE] for the batch_num-th batch (1-based)
NumBatches(urls) == (Len(urls) + batch_size - 1) \div batch_size
BatchURLs(urls, batch_num) ==
    SubSeq(urls, (batch_num - 1) * batch_size + 1,
           IF batch_num * batch_size < Len(urls) THEN batch_num * batch_size ELSE Len(urls))

\* ------------------------------------------------------------- variables
VARIABLES
    \* on disk
    mapFile,            \* map-urls.txt: the last discovered URL list
    disk,               \* state.json
    batchResponse,      \* batch-response.json: the pages of the last run
    pageFiles,          \* output/pages: the URLs that have a page file
    \* the remote fetch service: the URL lists of the jobs submitted so far,
    \* job id = index
    jobs,
    \* one run of main()
    pc,                 \* position of the run ("idle": no run in progress)
    skip_scrape,        \* config.skip_scrape
    force_refresh,      \* config.force_refresh
    map_result,         \* what map_website returned
    urls_to_delete,     \* confirmed deletions of this run
    urls_to_scrape,
    existing_pages,     \* the cached pages of the unchanged URLs
    state,              \* the in-memory state document
    batch_num,          \* batch_scrape's loop index
    firecrawl_batch_id,
    elapsed,            \* poll loop: elapsed time in POLL_INTERVAL ticks
    batch_pages,        \* pages collected for the current batch
    next_url,           \* pagination cursor `next` of the current batch (0: none)
    all_pages,          \* batch_scrape's result so far
    pages,              \* the run's final page list
    \* history (not program state)
    calls,              \* the remote calls this run has issued
    atStart,            \* state.json's batches when this run started
    mapAtStart,         \* map-urls.txt when this run started
    pendingNew,         \* New URLs an interrupted run had not submitted yet
    missStreak,         \* per URL: consecutive discovering runs it was missing
    scenarioRun,        \* runs the 4-run scenario has started
    \* load_state / save_state at the level of files
    files,              \* the content of state.json and of state.json.tmp
    save_pc,            \* position of a save_state call ("idle": none)
    save_doc,           \* the document the last save_state was called with
    loaded,             \* what the last load_state did
    before,             \* history: state.json when the last save_state began
    \* compare_maps and get_batch_id called on their own
    args,               \* the two URL lists of the call
    called,             \* the function that was called ("": none yet)
    ret,                \* what it returned
    \* one remote call under @retry(**RETRY_CONFIG)
    api_call,           \* the decorated function that was called ("": none yet)
    attempt_number,     \* the attempt in progress (0: no call)
    raised,             \* the exceptions the attempts have raised, in order
    outcome,            \* "" while attempts go on, then "returned" or "raised"
    propagated          \* the exception the caller receives

diskVars == <<mapFile, disk, batchResponse, pageFiles>>
config == <<skip_scrape, force_refresh>>
planVars == <<map_result, urls_to_delete, urls_to_scrape, existing_pages>>
pollVars == <<firecrawl_batch_id, elapsed, batch_pages, next_url>>
runVars == <<pc, config, planVars, state, batch_num, pollVars, all_pages, pages>>
histVars == <<calls, atStart, mapAtStart, pendingNew, missStreak, scenarioRun>>
storeVars == <<files, save_pc, save_doc, loaded, before>>
fnVars == <<args, called, ret>>
retryVars == <<api_call, attempt_number, raised, outcome, propagated>>
vars == <<diskVars, jobs, runVars, histVars, storeVars, fnVars, retryVars, batch_size>>

NoMapResult == [urls |-> <<>>, new_urls |-> <<>>, unchanged_urls |-> <<>>,
                deleted_urls |-> <<>>]
NoCalls == [map |-> 0, submit |-> {}, poll |-> {}, page |-> 0]

\* The locals of a run that has not started
IdleRun ==
    /\ pc = "idle"
    /\ skip_scrape = FALSE
    /\ force_refresh = FALSE
    /\ map_result = NoMapResult
    /\ urls_to_delete = {}
    /\ urls_to_scrape = <<>>
    /\ existing_pages = <<>>
    /\ state = EmptyState
    /\ batch_num = 0
    /\ firecrawl_batch_id = 0
    /\ elapsed = 0
    /\ batch_pages = <<>>
    /\ next_url = 0
    /\ all_pages = <<>>
    /\ pages = <<>>
    /\ calls = NoCalls
    /\ atStart = <<>>
    /\ mapAtStart = <<>>

\* batch-response.json does not exist
NoCache == [present |-> FALSE, pages |-> <<>>]

\* An empty workspace and no run in progress
InitRun ==
    /\ mapFile = <<>>
    /\ disk = EmptyState
    /\ batchResponse = NoCache
    /\ pageFiles = {}
    /\ jobs = <<>>
    /\ IdleRun
    /\ pendingNew = {}
    /\ missStreak = EmptyMap
    /\ scenarioRun = 0

\* No save_state call in progress, no load_state call made
StoreIdle ==
    /\ save_pc = "idle"
    /\ save_doc = EmptyState
    /\ loaded = NotLoaded
    /\ before = files[StatePath]

\* Neither compare_maps nor get_batch_id called on its own
NoCall == called = "" /\ ret = <<>>

\* What an attempt raises: requests' Timeout, ConnectionError and HTTPError
\* (status 0: an HTTPError without a response), or RuntimeError
NoException == [type |-> "", status |-> 0]
Timeout == [type |-> "Timeout", status |-> 0]
ConnectionError == [type |-> "ConnectionError", status |-> 0]
RuntimeError == [type |-> "RuntimeError", status |-> 0]
HTTPError(status) == [type |-> "HTTPError", status |-> status]

\* No decorated call made
RetryIdle ==
    /\ api_call = ""
    /\ attempt_number = 0
    /\ raised = <<>>
    /\ outcome = ""
    /\ propagated = NoException

Init ==
    /\ InitRun
    /\ files = [p \in Paths |-> AbsentFile]
    /\ StoreIdle
    /\ args = <<<<>>, <<>>>>
    /\ NoCall
    /\ RetryIdle
    /\ batch_size = BATCH_SIZE

\* ---------------------------------------------------------------- driver
\* One more discovering run in which the URLs outside new_urls were missing
Streak(streak, new_urls) ==
    [u \in (DOMAIN streak) \cup SeqToSet(new_urls) |->
        IF u \in SeqToSet(new_urls) THEN 0
        ELSE IF streak[u] < DELETION_MISS_THRESHOLD THEN streak[u] + 1
        ELSE streak[u]]

\* A map_website that reads map-urls.txt in every mode
always_cached(force, map_file) == map_file
\* map_website's cached_urls: [] on force refresh, else map-urls.txt
CachedUrls(force, map_file) == IF force THEN <<>> ELSE map_file

\* A map_website that keeps in map-urls.txt the URLs that went missing
map_keeps_missing(new_urls, force) ==
    /\ pc = "idle"
    /\ LET cached_urls == IF force THEN <<>> ELSE mapFile
           new_set == SeqToSet(new_urls)
           cached_set == SeqToSet(cached_urls)
       IN map_result' = [urls |-> new_urls,
                         new_urls |-> Sorted(new_set \ cached_set),
                         unchanged_urls |-> Sorted(new_set \cap cached_set),
                         deleted_urls |-> Sorted(cached_set \ new_set)]
    /\ mapFile' = Sorted(SeqToSet(new_urls) \cup SeqToSet(mapFile))
    /\ force_refresh' = force
    /\ pc' = "mapped"
    /\ calls' = [calls EXCEPT !.map = 1]
    /\ atStart' = disk.batches
    /\ mapAtStart' = mapFile
    /\ pendingNew' = IF force THEN {} ELSE pendingNew
    /\ UNCHANGED <<disk, batchResponse, pageFiles, jobs, skip_scrape, urls_to_delete,
                   urls_to_scrape, existing_pages, state, batch_num, pollVars,
                   all_pages, pages>>

\* map_website, called by main with skip_scrape = False: the Map API
\* returned new_urls; the cached list is read (incremental) or ignored
\* (force refresh), map-urls.txt is overwritten, the lists are compared.
MapWebsite(new_urls, force) ==
    /\ pc = "idle"
    /\ LET cached_urls == CachedUrls(force, mapFile)
           comparison == compare_maps(new_urls, cached_urls)
       IN map_result' = [urls |-> new_urls,
                         new_urls |-> comparison.new,
                         unchanged_urls |-> comparison.unchanged,
                         deleted_urls |-> comparison.deleted]
    /\ mapFile' = new_urls
    /\ force_refresh' = force
    /\ pc' = "mapped"
    /\ calls' = [calls EXCEPT !.map = 1]
    /\ atStart' = disk.batches
    /\ mapAtStart' = mapFile
    /\ pendingNew' = IF force THEN {} ELSE pendingNew
    /\ UNCHANGED <<disk, batchResponse, pageFiles, jobs, skip_scrape, urls_to_delete,
                   urls_to_scrape, existing_pages, state, batch_num, pollVars,
                   all_pages, pages>>

\* A map_website that opens map-urls.txt for writing before the call
map_truncates_first(force) ==
    /\ pc = "idle"
    /\ force_refresh' = force
    /\ pc' = "map_failed"
    /\ mapFile' = <<>>
    /\ calls' = [calls EXCEPT !.map = 1]
    /\ atStart' = disk.batches
    /\ mapAtStart' = mapFile
    /\ UNCHANGED <<disk, batchResponse, pageFiles, jobs, skip_scrape, planVars,
                   state, batch_num, pollVars, all_pages, pages, pendingNew, missStreak,
                   scenarioRun, storeVars, fnVars, retryVars, batch_size>>

\* map_website when _map_website_api_call raises (after its retries, or at
\* once): the exception leaves map_website before anything is written
MapFails(force) ==
    /\ pc = "idle"
    /\ force_refresh' = force
    /\ pc' = "map_failed"
    /\ calls' = [calls EXCEPT !.map = 1]
    /\ atStart' = disk.batches
    /\ mapAtStart' = mapFile
    /\ UNCHANGED <<diskVars, jobs, skip_scrape, planVars,
                   state, batch_num, pollVars, all_pages, pages, pendingNew, missStreak,
                   scenarioRun, storeVars, fnVars, retryVars, batch_size>>

\* main: "Save map state + update deletion candidates in one write"
SaveMapState ==
    /\ pc = "mapped"
    /\ LET doc == disk
           \* the times of day of the runs are not told apart: now = 0
           upd == update_deletion_candidates(doc.deletion_candidates,
                                             map_result.deleted_urls, map_result.urls, 0)
           new_state == [doc EXCEPT
                           !.map = [present |-> TRUE, urls |-> map_result.urls],
                           !.deletion_candidates = upd.candidates]
       IN /\ state' = new_state
          /\ disk' = new_state
          /\ urls_to_delete' = upd.urls_to_delete
    /\ pc' = "saved"
    /\ UNCHANGED <<mapFile, batchResponse, pageFiles, jobs, config, map_result,
                   urls_to_scrape, existing_pages, batch_num, pollVars, all_pages, pages,
                   histVars, storeVars, fnVars, retryVars, batch_size>>

\* A main that scrapes every discovered URL in every mode
scrape_all(result, force) == result.urls

\* main, "Step 2: Determine what to scrape"
UrlsToScrape(result, force) ==
    IF force THEN result.urls
    ELSE IF result.new_urls # <<>> THEN result.new_urls
    ELSE IF result.unchanged_urls # <<>> THEN <<>>
    ELSE result.urls

\* The pages of `found` whose URL is wanted and not yet seen, appended to acc
RECURSIVE TakePages(_, _, _)
TakePages(found, url_set, acc) ==
    IF found = <<>> THEN acc
    ELSE LET page == Head(found)
         IN TakePages(Tail(found), url_set,
                      IF page.sourceURL \in url_set /\ page.sourceURL \notin PageURLs(acc)
                      THEN Append(acc, page) ELSE acc)

\* The pages of the completed batches, in the order of state["batches"]
RECURSIVE CompletedPages(_)
CompletedPages(batches) ==
    IF batches = <<>> THEN <<>>
    ELSE (IF Head(batches).status = "completed" THEN Head(batches).pages ELSE <<>>)
         \o CompletedPages(Tail(batches))

\* load_existing_pages: state.json first, batch-response.json for the rest
load_existing_pages(urls, doc, cache) ==
    IF urls = <<>> THEN <<>>
    ELSE LET url_set == SeqToSet(urls)
             from_state == TakePages(CompletedPages(doc.batches), url_set, <<>>)
         IN IF Cardinality(PageURLs(from_state)) < Cardinality(url_set) /\ cache.present
            THEN TakePages(cache.pages, url_set, from_state)
            ELSE from_state

ExistingPages(result, force, doc, cache) ==
    IF force THEN <<>>
    ELSE IF result.new_urls # <<>> \/ result.unchanged_urls # <<>>
         THEN load_existing_pages(result.unchanged_urls, doc, cache)
         ELSE <<>>

\* "Delete orphaned page files immediately (before approval gate ...)"
DeleteOrphans == pageFiles' = pageFiles \ urls_to_delete

\* main from the deletion of the orphaned page files up to the call of
\* batch_scrape (the cost prompt approved, or nothing to scrape), and
\* batch_scrape's load_state
PlanScrape ==
    /\ pc = "saved"
    /\ DeleteOrphans
    /\ urls_to_scrape' = UrlsToScrape(map_result, force_refresh)
    /\ existing_pages' = ExistingPages(map_result, force_refresh, disk, batchResponse)
    /\ IF urls_to_scrape' # <<>>
       THEN /\ state' = disk
            /\ batch_num' = 1
            /\ pc' = "batch"
       ELSE /\ pc' = "scraped"
            /\ UNCHANGED <<state, batch_num>>
    /\ UNCHANGED <<mapFile, disk, batchResponse, jobs, config, map_result, urls_to_delete,
                   pollVars, all_pages, pages, histVars, storeVars, fnVars, retryVars, batch_size>>

\* ---------------------------------------------------------- batch_scrape
batch_urls == BatchURLs(urls_to_scrape, batch_num)
batch_id == get_batch_id(batch_urls)
batch_state == BatchGet(state.batches, batch_id)
InBatch == pc = "batch" /\ batch_num <= NumBatches(urls_to_scrape)

\* A batch_scrape that tests the status against a value no record has
NeverCached(rec, force) == ~force /\ rec.status = "complete"

\* A batch_scrape that uses a completed record on --force-refresh as well
cached_when_forced(rec, force) == rec.status = "completed"

\* "Check if batch already completed (idempotency)"
UseCached(rec, force) == ~force /\ rec.status = "completed"

\* A batch_scrape that polls the remote job of a failed record again
resume_failed(rec, force) ==
    ~force /\ rec.status \in {"polling", "failed"} /\ rec.firecrawl_batch_id # 0

\* "Check if batch was submitted but not completed (resume)"
CanResume(rec, force) ==
    ~force /\ rec.status = "polling" /\ rec.firecrawl_batch_id # 0

\* The loop moves on to the next batch (continue, or the end of the body)
NextBatch ==
    /\ batch_num' = batch_num + 1
    /\ pc' = "batch"
    /\ firecrawl_batch_id' = 0
    /\ elapsed' = 0
    /\ batch_pages' = <<>>
    /\ next_url' = 0

\* A batch_scrape that returns when a batch fails
ReturnEarly ==
    /\ pc' = "scraped"
    /\ firecrawl_batch_id' = 0
    /\ elapsed' = 0
    /\ batch_pages' = <<>>
    /\ next_url' = 0
    /\ UNCHANGED batch_num

\* A failed batch is skipped: "continue" after a failed submit, "break" and
\* "if not poll_succeeded: continue" after a failed poll
SkipBatch == NextBatch

\* save_state(workspace_dir, state): state.json is replaced by the document
save_state(doc) == disk' = doc

\* A batch_scrape that saves a document made of its batches only
store_batches_only(rec) ==
    /\ state' = [state EXCEPT !.batches = BatchPut(state.batches, rec)]
    /\ disk' = [EmptyState EXCEPT !.batches = state'.batches]

\* A batch_scrape that changes the record in memory and saves it later
store_in_memory(rec) ==
    /\ state' = [state EXCEPT !.batches = BatchPut(state.batches, rec)]
    /\ UNCHANGED disk

\* state["batches"][batch_id] = rec; save_state(workspace_dir, state)
StoreBatch(rec) ==
    /\ state' = [state EXCEPT !.batches = BatchPut(state.batches, rec)]
    /\ save_state(state')

\* What no step of batch_scrape changes
BatchFrame == UNCHANGED <<mapFile, batchResponse, pageFiles, config, planVars, pages,
                          atStart, mapAtStart, pendingNew, missStreak, scenarioRun, storeVars, fnVars, retryVars, batch_size>>

\* The batch is completed in state.json: its cached pages are used
ChunkCached ==
    /\ InBatch
    /\ UseCached(batch_state, force_refresh)
    /\ all_pages' = all_pages \o batch_state.pages
    /\ NextBatch
    /\ BatchFrame
    /\ UNCHANGED <<disk, jobs, state, calls>>

\* The batch is polling in state.json: no submit, its job is polled again
ChunkResume ==
    /\ InBatch
    /\ ~UseCached(batch_state, force_refresh)
    /\ CanResume(batch_state, force_refresh)
    /\ firecrawl_batch_id' = batch_state.firecrawl_batch_id
    /\ pc' = "poll"
    /\ elapsed' = 0
    /\ BatchFrame
    /\ UNCHANGED <<disk, jobs, state, batch_num, batch_pages, next_url, all_pages, calls>>

MustSubmit ==
    /\ InBatch
    /\ ~UseCached(batch_state, force_refresh)
    /\ ~CanResume(batch_state, force_refresh)

\* A batch_scrape that moves on after a failed submit without a record
SubmitFailsUnrecorded ==
    /\ MustSubmit
    /\ calls' = [calls EXCEPT !.submit = @ \cup {batch_id}]
    /\ SkipBatch
    /\ BatchFrame
    /\ UNCHANGED <<disk, state, jobs, all_pages>>

\* _batch_submit_api_call raised: the batch is saved as failed
SubmitFails ==
    /\ MustSubmit
    /\ calls' = [calls EXCEPT !.submit = @ \cup {batch_id}]
    /\ StoreBatch([batch_id |-> batch_id, firecrawl_batch_id |-> 0,
                   status |-> "failed", pages |-> <<>>, error |-> "submit_error"])
    /\ SkipBatch
    /\ BatchFrame
    /\ UNCHANGED <<jobs, all_pages>>

\* _batch_submit_api_call returned the id of a new remote job
SubmitOk ==
    /\ MustSubmit
    /\ Len(jobs) < MaxJobs
    /\ jobs' = Append(jobs, batch_urls)
    /\ firecrawl_batch_id' = Len(jobs) + 1
    /\ calls' = [calls EXCEPT !.submit = @ \cup {batch_id}]
    /\ pc' = "submitted"
    /\ BatchFrame
    /\ UNCHANGED <<disk, state, batch_num, elapsed, batch_pages, next_url, all_pages>>

\* A batch_scrape that enters the poll loop without saving the record
poll_before_save ==
    /\ pc = "submitted"
    /\ pc' = "poll"
    /\ elapsed' = 0
    /\ BatchFrame
    /\ UNCHANGED <<disk, state, jobs, batch_num, firecrawl_batch_id, batch_pages, next_url,
                   all_pages, calls>>

\* "Save state as polling (for resume on crash)"
SavePolling ==
    /\ pc = "submitted"
    /\ StoreBatch([batch_id |-> batch_id, firecrawl_batch_id |-> firecrawl_batch_id,
                   status |-> "polling", pages |-> <<>>, error |-> ""])
    /\ pc' = "poll"
    /\ elapsed' = 0
    /\ BatchFrame
    /\ UNCHANGED <<jobs, batch_num, firecrawl_batch_id, batch_pages, next_url, all_pages,
                   calls>>

\* A batch_scrape that records the error and leaves the status as it is
error_without_status(error) ==
    StoreBatch([batch_state EXCEPT !.error = error])

\* state["batches"][batch_id]["status"] = "failed", ["error"] = error; save
FailBatch(error) ==
    StoreBatch([batch_state EXCEPT !.status = "failed", !.error = error])

\* A poll loop whose elapsed time does not advance
stopped_clock(e) == e \in 1..(MaxPollTicks + 1)

\* One round of the poll loop: time.sleep(POLL_INTERVAL) and the time the
\* previous call took bring the elapsed time to e ticks
Sleeps(e) == e \in (elapsed + 1)..(MaxPollTicks + 1)
\* elapsed > MAX_POLL_TIME
TimedOut(e) == e > MaxPollTicks

\* "TIMEOUT after ... -- skipping batch"
PollTimeout ==
    /\ pc = "poll"
    /\ \E e \in 1..(MaxPollTicks + 1) : Sleeps(e) /\ TimedOut(e)
    /\ FailBatch("poll_timeout")
    /\ SkipBatch
    /\ BatchFrame
    /\ UNCHANGED <<jobs, all_pages, calls>>

\* The poll call of this round is issued
Polls(e) ==
    /\ pc = "poll"
    /\ Sleeps(e)
    /\ ~TimedOut(e)
    /\ calls' = [calls EXCEPT !.poll = @ \cup {firecrawl_batch_id}]

\* _batch_poll_api_call raised
PollRaises ==
    /\ \E e \in 1..MaxPollTicks : Polls(e)
    /\ FailBatch("poll_error")
    /\ SkipBatch
    /\ BatchFrame
    /\ UNCHANGED <<jobs, all_pages>>

\* the remote job is still running
PollScraping ==
    /\ \E e \in 1..MaxPollTicks : Polls(e) /\ elapsed' = e
    /\ BatchFrame
    /\ UNCHANGED <<disk, jobs, pc, state, batch_num, firecrawl_batch_id, batch_pages,
                   next_url, all_pages>>

\* the remote job failed
PollBatchFailed ==
    /\ \E e \in 1..MaxPollTicks : Polls(e)
    /\ FailBatch("batch_failed")
    /\ SkipBatch
    /\ BatchFrame
    /\ UNCHANGED <<jobs, all_pages>>

\* the remote job completed: the first k pages come with the status, the
\* rest (if any) behind the cursor `next`
PollCompleted ==
    /\ \E e \in 1..MaxPollTicks : Polls(e) /\ elapsed' = e
    /\ LET data == JobPages(firecrawl_batch_id, jobs[firecrawl_batch_id])
       IN \E k \in 0..Len(data) :
             /\ batch_pages' = SubSeq(data, 1, k)
             /\ next_url' = IF k < Len(data) THEN 1 ELSE 0
    /\ pc' = "collect"
    /\ BatchFrame
    /\ UNCHANGED <<disk, jobs, state, batch_num, firecrawl_batch_id, all_pages>>

\* _batch_next_page_api_call returned the rest of the job's pages
FetchPageOk ==
    /\ pc = "collect"
    /\ next_url # 0
    /\ LET data == JobPages(firecrawl_batch_id, jobs[firecrawl_batch_id])
       IN batch_pages' = batch_pages \o SubSeq(data, Len(batch_pages) + 1, Len(data))
    /\ next_url' = 0
    /\ calls' = [calls EXCEPT !.page = 1]
    /\ BatchFrame
    /\ UNCHANGED <<disk, jobs, pc, state, batch_num, firecrawl_batch_id, elapsed,
                   all_pages>>

\* _batch_next_page_api_call returned a page without data and with another
\* cursor `next`: the loop goes round once more
FetchPageMore ==
    /\ pc = "collect"
    /\ next_url # 0
    /\ next_url' = 3 - next_url
    /\ calls' = [calls EXCEPT !.page = 1]
    /\ BatchFrame
    /\ UNCHANGED <<disk, jobs, pc, state, batch_num, firecrawl_batch_id, elapsed,
                   batch_pages, all_pages>>

\* _batch_next_page_api_call raised: "Pagination failed", break
FetchPageFails ==
    /\ pc = "collect"
    /\ next_url # 0
    /\ pc' = "collected"
    /\ calls' = [calls EXCEPT !.page = 1]
    /\ BatchFrame
    /\ UNCHANGED <<disk, jobs, state, batch_num, pollVars, all_pages>>

\* A batch_scrape that puts the pages of a new batch before the others
completed_first ==
    /\ \/ pc = "collect" /\ next_url = 0
       \/ pc = "collected"
    /\ StoreBatch([batch_id |-> batch_id, firecrawl_batch_id |-> firecrawl_batch_id,
                   status |-> "completed", pages |-> batch_pages, error |-> ""])
    /\ all_pages' = batch_pages \o all_pages
    /\ NextBatch
    /\ BatchFrame
    /\ UNCHANGED <<jobs, calls>>

\* "Save completed batch to state"
SaveCompleted ==
    /\ \/ pc = "collect" /\ next_url = 0
       \/ pc = "collected"
    /\ StoreBatch([batch_id |-> batch_id, firecrawl_batch_id |-> firecrawl_batch_id,
                   status |-> "completed", pages |-> batch_pages, error |-> ""])
    /\ all_pages' = all_pages \o batch_pages
    /\ NextBatch
    /\ BatchFrame
    /\ UNCHANGED <<jobs, calls>>

\* batch_scrape returns all_pages
FinishScrape ==
    /\ pc = "batch"
    /\ batch_num > NumBatches(urls_to_scrape)
    /\ pc' = "scraped"
    /\ BatchFrame
    /\ UNCHANGED <<disk, jobs, state, batch_num, pollVars, all_pages, calls>>

\* new_pages = batch_scrape(...): all that main receives from batch_scrape
\* is the list of pages it returns
new_pages == all_pages

\* ------------------------------------------------------ the end of main
\* pages = existing_pages + new_pages; batch-response.json is written
WriteCache ==
    /\ pc = "scraped"
    /\ pages' = existing_pages \o all_pages
    /\ batchResponse' = [present |-> TRUE, pages |-> pages']
    /\ pc' = "assemble"
    /\ UNCHANGED <<mapFile, disk, pageFiles, jobs, config, planVars, state, batch_num,
                   pollVars, all_pages, histVars, storeVars, fnVars, retryVars, batch_size>>

\* assemble_pages: one page file per page
Assemble ==
    /\ pc = "assemble"
    /\ pageFiles' = pageFiles \cup PageURLs(pages)
    /\ pc' = "done"
    /\ UNCHANGED <<mapFile, disk, batchResponse, jobs, config, planVars, state, batch_num,
                   pollVars, all_pages, pages, histVars, storeVars, fnVars, retryVars, batch_size>>

\* A main that calls the Map API in a --skip-scrape run as well
CacheOnlyRemap ==
    /\ pc = "idle"
    /\ skip_scrape' = TRUE
    /\ \E new_urls \in SiteLists : mapFile' = new_urls
    /\ calls' = [calls EXCEPT !.map = 1]
    /\ state' = disk
    /\ pages' = CompletedPages(disk.batches)
    /\ pc' = "assemble"
    /\ atStart' = disk.batches
    /\ mapAtStart' = mapFile
    /\ UNCHANGED <<disk, batchResponse, pageFiles, jobs, force_refresh, planVars,
                   batch_num, pollVars, all_pages, pendingNew, missStreak, scenarioRun,
                   storeVars, fnVars, retryVars, batch_size>>

\* main with --skip-scrape, up to the assembly: the pages of the completed
\* batches of state.json, or of batch-response.json when state.json has no
\* batches (without either file the run exits and changes nothing)
CacheOnlyRun ==
    /\ pc = "idle"
    /\ disk.batches # <<>> \/ batchResponse.present
    /\ skip_scrape' = TRUE
    /\ state' = disk
    /\ pages' = IF disk.batches # <<>> THEN CompletedPages(disk.batches)
                ELSE batchResponse.pages
    /\ pc' = "assemble"
    /\ atStart' = disk.batches
    /\ mapAtStart' = mapFile
    /\ UNCHANGED <<diskVars, jobs, force_refresh, planVars, batch_num, pollVars,
                   all_pages, calls, pendingNew, missStreak, scenarioRun, storeVars, fnVars, retryVars, batch_size>>

\* ----------------------------------------------------- the end of a run
\* The URLs with a page in a completed batch of a state document
Fetched(doc) == PageURLs(CompletedPages(doc.batches))

\* The URLs of the batches from the n-th on
UrlsFrom(urls, n) == SeqToSet(SubSeq(urls, (n - 1) * batch_size + 1, Len(urls)))

\* The New URLs of this run whose batch has not been submitted (and that no
\* completed batch holds)
Unsubmitted ==
    (CASE pc \in {"mapped", "saved"} -> SeqToSet(map_result.new_urls)
       [] pc = "batch" -> UrlsFrom(urls_to_scrape, batch_num)
       [] pc \in {"submitted", "poll", "collect", "collected"} ->
            UrlsFrom(urls_to_scrape, batch_num + 1)
       [] OTHER -> {}) \ Fetched(disk)

\* The process ends: its locals are gone, the files stay
ProcessEnds ==
    /\ pc' = "idle"
    /\ skip_scrape' = FALSE
    /\ force_refresh' = FALSE
    /\ map_result' = NoMapResult
    /\ urls_to_delete' = {}
    /\ urls_to_scrape' = <<>>
    /\ existing_pages' = <<>>
    /\ state' = EmptyState
    /\ batch_num' = 0
    /\ firecrawl_batch_id' = 0
    /\ elapsed' = 0
    /\ batch_pages' = <<>>
    /\ next_url' = 0
    /\ all_pages' = <<>>
    /\ pages' = <<>>
    /\ calls' = NoCalls
    /\ atStart' = <<>>
    /\ mapAtStart' = <<>>
    /\ UNCHANGED <<mapFile, disk, batchResponse, jobs, missStreak, scenarioRun, storeVars, fnVars, retryVars, batch_size>>

\* What an interrupted run leaves unsubmitted for the next incremental run
Interrupted ==
    pendingNew' = IF skip_scrape THEN pendingNew
                  ELSE IF force_refresh THEN {}
                  ELSE Unsubmitted

\* main returns
EndRun ==
    /\ pc = "done"
    /\ pendingNew' = IF skip_scrape THEN pendingNew ELSE {}
    /\ ProcessEnds
    /\ UNCHANGED pageFiles

\* The exception of map_website leaves main: the process ends
ExitOnError ==
    /\ pc = "map_failed"
    /\ ProcessEnds
    /\ UNCHANGED <<pageFiles, pendingNew>>

\* The process is interrupted (killed, Ctrl+C, power) anywhere in a run
Crash ==
    /\ pc \notin {"idle", "done", "map_failed"}
    /\ Interrupted
    /\ ProcessEnds
    /\ UNCHANGED pageFiles

\* The cost prompt is declined: print_cancelled_message, sys.exit(0)
DeclineCost ==
    /\ pc = "saved"
    /\ UrlsToScrape(map_result, force_refresh) # <<>>
    /\ DeleteOrphans
    /\ Interrupted
    /\ ProcessEnds

\* ------------------------------------------------------- specifications
\* A batch that state.json already holds as completed or polling
ReuseStep ==
    \/ ChunkCached
    \/ ChunkResume

\* A batch that is submitted, polled and collected
FetchStep ==
    \/ SubmitFails
    \/ SubmitOk
    \/ SavePolling
    \/ PollTimeout
    \/ PollRaises
    \/ PollScraping
    \/ PollBatchFailed
    \/ PollCompleted
    \/ FetchPageOk
    \/ FetchPageMore
    \/ FetchPageFails
    \/ SaveCompleted
    \/ FinishScrape

\* A step of a run in progress
Step ==
    \/ SaveMapState
    \/ PlanScrape
    \/ ReuseStep
    \/ FetchStep
    \/ WriteCache
    \/ Assemble
    \/ EndRun

\* An incremental or a force-refresh run starts: the Map API answers
StartRun ==
    /\ \E new_urls \in SiteLists, force \in BOOLEAN :
          /\ MapWebsite(new_urls, force)
          /\ missStreak' = Streak(missStreak, new_urls)
    /\ UNCHANGED <<scenarioRun, storeVars, fnVars, retryVars, batch_size>>

\* The discovery call of an incremental or --force-refresh run fails
StartFails == \E force \in BOOLEAN : MapFails(force)

\* Runs in every mode, interrupted anywhere
Next ==
    \/ StartRun
    \/ StartFails
    \/ ExitOnError
    \/ CacheOnlyRun
    \/ Step
    \/ Crash
    \/ DeclineCost

Spec == Init /\ [][Next]_vars

\* An incremental run starts
StartIncremental ==
    /\ \E new_urls \in SiteLists :
          /\ MapWebsite(new_urls, FALSE)
          /\ missStreak' = Streak(missStreak, new_urls)
    /\ UNCHANGED <<scenarioRun, storeVars, fnVars, retryVars, batch_size>>

\* Runs that are never forced (incremental and cache-only), interrupted anywhere
NextUnforced ==
    \/ StartIncremental
    \/ CacheOnlyRun
    \/ Step
    \/ Crash
    \/ DeclineCost

SpecUnforced == Init /\ [][NextUnforced]_vars

\* The 4-run scenario: incremental runs, none interrupted, the discovery
\* service returning Scenario[1], Scenario[2], ...  No batch is met twice
\* (only run 1 has New URLs), so no batch is reused.
ScenarioStart ==
    /\ scenarioRun < Len(Scenario)
    /\ MapWebsite(Scenario[scenarioRun + 1], FALSE)
    /\ scenarioRun' = scenarioRun + 1
    /\ UNCHANGED <<missStreak, storeVars, fnVars, retryVars, batch_size>>

NextScenario ==
    \/ ScenarioStart
    \/ SaveMapState
    \/ PlanScrape
    \/ FetchStep
    \/ WriteCache
    \/ Assemble
    \/ EndRun

SpecScenario == Init /\ [][NextScenario]_vars

\* Runs in every mode on a site of two pages, none interrupted.  A batch is
\* never found polling: a run that is not killed leaves it completed or failed.
TwoPageLists == {<<"A">>, <<"A", "B">>}

StartOnTwoPages ==
    /\ \E new_urls \in TwoPageLists, force \in BOOLEAN :
          /\ MapWebsite(new_urls, force)
          /\ missStreak' = Streak(missStreak, new_urls)
    /\ UNCHANGED <<scenarioRun, storeVars, fnVars, retryVars, batch_size>>

NextUninterrupted ==
    \/ StartOnTwoPages
    \/ CacheOnlyRun
    \/ SaveMapState
    \/ PlanScrape
    \/ ChunkCached
    \/ FetchStep
    \/ WriteCache
    \/ Assemble
    \/ EndRun

SpecUninterrupted == Init /\ [][NextUninterrupted]_vars

\* The same runs when the process keeps running: batch_scrape is one
\* sequential loop, so while it is not interrupted its next step is taken;
\* what the remote service answers is not constrained
SpecRunning ==
    /\ Init
    /\ [][NextUninterrupted]_vars
    /\ WF_vars(ChunkCached)
    /\ WF_vars(FetchStep)

\* The same runs with batches of one URL more
InitLargerBatches ==
    /\ InitRun
    /\ files = [p \in Paths |-> AbsentFile]
    /\ StoreIdle
    /\ args = <<<<>>, <<>>>>
    /\ NoCall
    /\ RetryIdle
    /\ batch_size = BATCH_SIZE + 1

SpecLargerBatches == InitLargerBatches /\ [][NextUninterrupted]_vars

\* ------------------------------------------------ state store, the files
\* The run model above takes state.json to hold a document (disk) and a
\* save_state call to be one step.  Here the two functions are taken
\* apart: the files hold text, a save_state call is a sequence of steps
\* that the process can be killed in, and state.json starts in any condition.
InitStore ==
    /\ InitRun
    /\ \E file \in {AbsentFile} \cup {Damaged(k) : k \in DamagedKinds}
                   \cup {Complete(d) : d \in StoreDocs} :
          files = [p \in Paths |-> IF p = StatePath THEN file ELSE AbsentFile]
    /\ StoreIdle
    /\ args = <<<<>>, <<>>>>
    /\ NoCall
    /\ RetryIdle
    /\ batch_size = BATCH_SIZE

StoreFrame == UNCHANGED <<diskVars, jobs, runVars, histVars, fnVars, retryVars, batch_size>>

\* save_state: open(temp_path, "w") creates or truncates the file
SaveOpen(doc) ==
    /\ save_pc = "idle"
    /\ files' = [files EXCEPT ![temp_path(StatePath)] = Text(doc, 0)]
    /\ save_pc' = "dump"
    /\ save_doc' = doc
    /\ before' = files[StatePath]
    /\ loaded' = NotLoaded
    /\ StoreFrame

\* save_state: json.dump writes the next chunk
SaveDump ==
    /\ save_pc = "dump"
    /\ files[temp_path(StatePath)].written < WriteChunks
    /\ files' = [files EXCEPT ![temp_path(StatePath)].written = @ + 1]
    /\ UNCHANGED <<save_pc, save_doc, loaded, before>>
    /\ StoreFrame

\* save_state: the file is closed and os.replace puts it at state_path
SaveReplace ==
    /\ save_pc = "dump"
    /\ files[temp_path(StatePath)].written = WriteChunks
    /\ files' = Replace(files, temp_path(StatePath), StatePath)
    /\ save_pc' = "idle"
    /\ UNCHANGED <<save_doc, loaded, before>>
    /\ StoreFrame

\* The process is killed inside save_state
SaveInterrupted ==
    /\ save_pc = "dump"
    /\ save_pc' = "idle"
    /\ UNCHANGED <<files, save_doc, loaded, before>>
    /\ StoreFrame

\* A load_state call
LoadState ==
    /\ save_pc = "idle"
    /\ loaded' = load_state(files[StatePath])
    /\ UNCHANGED <<files, save_pc, save_doc, before>>
    /\ StoreFrame

NextStore ==
    \/ \E doc \in StoreDocs : SaveOpen(doc)
    \/ SaveDump
    \/ SaveReplace
    \/ SaveInterrupted
    \/ LoadState

SpecStore == InitStore /\ [][NextStore]_vars

\* ------------------------------------------- the pure functions, alone
\* compare_maps and get_batch_id applied to any two URL lists of at most
\* MaxLen entries.
InitFunctions ==
    /\ InitRun
    /\ files = [p \in Paths |-> AbsentFile]
    /\ StoreIdle
    /\ args \in URLLists \X URLLists
    /\ NoCall
    /\ RetryIdle
    /\ batch_size = BATCH_SIZE

FnFrame == UNCHANGED <<diskVars, jobs, runVars, histVars, storeVars, args, retryVars, batch_size>>

\* compare_maps(new_urls, cached_urls)
CallCompareMaps ==
    /\ called = ""
    /\ called' = "compare_maps"
    /\ ret' = compare_maps(args[1], args[2])
    /\ FnFrame

\* get_batch_id of each of the two lists
CallGetBatchId ==
    /\ called = ""
    /\ called' = "get_batch_id"
    /\ ret' = <<get_batch_id(args[1]), get_batch_id(args[2])>>
    /\ FnFrame

NextFunctions ==
    \/ CallCompareMaps
    \/ CallGetBatchId

SpecFunctions == InitFunctions /\ [][NextFunctions]_vars

\* ------------------------------------- update_deletion_candidates alone
\* state["deletion_candidates"]: per URL absent, or a candidate with its
\* count (the threshold included) and the time it was first missing
Candidates ==
    [consecutive_misses : 1..DELETION_MISS_THRESHOLD,
     first_missing_at : {0, 1}, last_missing_at : {1}]
CandidateMaps == UNION {[S -> Candidates] : S \in SUBSET URLs}

\* deleted_urls as compare_maps returns it: sorted, no URL twice
DeletedLists == {Sorted(S) : S \in {T \in SUBSET URLs : Cardinality(T) <= MaxLen}}

\* Any candidates, any deleted and active URLs, at a later time
InitHysteresis ==
    /\ InitRun
    /\ files = [p \in Paths |-> AbsentFile]
    /\ StoreIdle
    /\ args \in CandidateMaps \X DeletedLists \X URLLists \X {2}
    /\ NoCall
    /\ RetryIdle
    /\ batch_size = BATCH_SIZE

\* update_deletion_candidates(state, deleted_urls, active_urls)
CallUpdateDeletionCandidates ==
    /\ called = ""
    /\ called' = "update_deletion_candidates"
    /\ ret' = update_deletion_candidates(args[1], args[2], args[3], args[4])
    /\ FnFrame

SpecHysteresis == InitHysteresis /\ [][CallUpdateDeletionCandidates]_vars

\* ---------------------------------------- the remote calls under @retry
\* The functions decorated with @retry(**RETRY_CONFIG)
ApiCalls == {"_map_website_api_call", "_batch_submit_api_call",
             "_batch_poll_api_call", "_batch_next_page_api_call"}

\* The status codes resp.raise_for_status() raises an HTTPError for
StatusCodes == {400, 401, 403, 404, 429, 500, 501, 502, 503, 504}

\* What one attempt of the function can raise: the map and the submit call
\* also raise RuntimeError when the answer says success: false
Raisable(fn) ==
    {Timeout, ConnectionError, HTTPError(0)}
      \cup {HTTPError(c) : c \in StatusCodes}
      \cup (IF fn \in {"_map_website_api_call", "_batch_submit_api_call"}
            THEN {RuntimeError} ELSE {})

\* A predicate that takes every exception for a transient one
retry_any_error(exception) == TRUE

\* _is_retryable_error(exception)
is_retryable_error(exception) ==
    IF exception.type \in {"Timeout", "ConnectionError"} THEN TRUE
    ELSE IF exception.type = "HTTPError"
         THEN exception.status \in {429, 500, 502, 503, 504}
         ELSE FALSE

\* "stop": stop_after_attempt(5)
stop_after_attempt == 5
stop(n) == n >= stop_after_attempt

InitRetry ==
    /\ InitRun
    /\ files = [p \in Paths |-> AbsentFile]
    /\ StoreIdle
    /\ args = <<<<>>, <<>>>>
    /\ NoCall
    /\ RetryIdle
    /\ batch_size = BATCH_SIZE

RetryFrame == UNCHANGED <<diskVars, jobs, runVars, histVars, storeVars, fnVars, batch_size>>

\* The decorated function is called: tenacity starts the first attempt
CallApi ==
    /\ api_call = ""
    /\ \E fn \in ApiCalls : api_call' = fn
    /\ attempt_number' = 1
    /\ UNCHANGED <<raised, outcome, propagated>>
    /\ RetryFrame

\* The attempt returns the answer: so does the decorated function
AttemptReturns ==
    /\ api_call # ""
    /\ outcome = ""
    /\ outcome' = "returned"
    /\ UNCHANGED <<api_call, attempt_number, raised, propagated>>
    /\ RetryFrame

\* The attempt raises: "retry": retry_if_exception(_is_retryable_error)
\* decides whether another attempt is made unless "stop" says it was the
\* last; "reraise": True hands the attempt's exception to the caller
AttemptRaises ==
    /\ api_call # ""
    /\ outcome = ""
    /\ \E exception \in Raisable(api_call) :
          /\ raised' = Append(raised, exception)
          /\ IF is_retryable_error(exception) /\ ~stop(attempt_number)
             THEN /\ attempt_number' = attempt_number + 1
                  /\ UNCHANGED <<outcome, propagated>>
             ELSE /\ outcome' = "raised"
                  /\ propagated' = exception
                  /\ UNCHANGED attempt_number
    /\ UNCHANGED api_call
    /\ RetryFrame

NextRetry ==
    \/ CallApi
    \/ AttemptReturns
    \/ AttemptRaises

SpecRetry == InitRetry /\ [][NextRetry]_vars

\* ================================================================ claims
\* ConsecutiveMisses of a URL in state.json (0: no candidate)
Misses(u) ==
    IF u \in DOMAIN disk.deletion_candidates
    THEN disk.deletion_candidates[u].consecutive_misses
    ELSE 0

\* An incremental run has reached the end of main
IncrementalDone == pc = "done" /\ ~skip_scrape /\ ~force_refresh

\* C1: in the scenario {A,B,C}, {A,C}, {A,C}, {A,C} with threshold 3, run 1
\* reports New = {A,B,C} and no deletion; run 2 reports Removed = {B} and
\* creates candidate B with 1 miss; run 3 raises B to 2 misses; run 4 raises
\* it to 3, reports the confirmed deletion {B} and removes the candidate.
C1_Scenario ==
    pc = "done" =>
        /\ scenarioRun = 1 =>
              map_result.new_urls = <<"A", "B", "C">> /\ urls_to_delete = {}
        /\ scenarioRun = 2 =>
              /\ map_result.deleted_urls = <<"B">>
              /\ Misses("B") = 1
              /\ urls_to_delete = {}
        /\ scenarioRun = 3 => Misses("B") = 2 /\ urls_to_delete = {}
        /\ scenarioRun = 4 => urls_to_delete = {"B"} /\ Misses("B") = 0

\* The URLs of the batch `id` are all in the run's discovered list
StillDiscovered(id) == SeqToSet(id) \subseteq SeqToSet(map_result.urls)

\* C2: a batch left failed by a run is submitted again by the next
\* incremental run that discovers the same URL list.
C2_FailedChunkRetried ==
    (IncrementalDone /\ map_result.new_urls = <<>> /\ map_result.deleted_urls = <<>>) =>
        \A i \in 1..Len(atStart) :
            (atStart[i].status = "failed" /\ StillDiscovered(atStart[i].batch_id)) =>
                \E id \in calls.submit : SeqToSet(atStart[i].batch_id) \subseteq SeqToSet(id)

\* C3: a run that finds a batch polling with a remote job id (the run before
\* was interrupted) polls that job id and does not submit the batch again.
C3_ResumeAfterCrash ==
    IncrementalDone =>
        \A i \in 1..Len(atStart) :
            (/\ atStart[i].status = "polling"
             /\ atStart[i].firecrawl_batch_id # 0
             /\ StillDiscovered(atStart[i].batch_id)) =>
                /\ atStart[i].firecrawl_batch_id \in calls.poll
                /\ atStart[i].batch_id \notin calls.submit

\* C4: the New URLs that an interrupted incremental run had not submitted
\* are queued for scraping by the next incremental run.
C4_InterruptedRunResumes ==
    (pc = "saved" /\ ~force_refresh) =>
        \A u \in pendingNew \cap SeqToSet(map_result.urls) :
            u \in SeqToSet(UrlsToScrape(map_result, force_refresh))

\* C5: with a completed record for its batch id and no forced refresh,
\* batch_scrape's step for the batch issues no remote call, appends exactly
\* the cached pages to its result and leaves the record (in memory and in
\* state.json) as it is.
C5_IdempotentReentry ==
    [][(/\ InBatch
        /\ ~force_refresh
        /\ batch_state.status = "completed"
        /\ pc' # "idle")
       => /\ calls' = calls
          /\ jobs' = jobs
          /\ all_pages' = all_pages \o batch_state.pages
          /\ state' = state
          /\ disk' = disk
          /\ batch_num' = batch_num + 1]_vars

\* C5's case: a batch has been served from the cache (pages without a call)
C5_Witness ==
    /\ pc = "batch"
    /\ ~force_refresh
    /\ batch_num > 1
    /\ all_pages # <<>>
    /\ calls.submit = {}
    /\ calls.poll = {}

\* C6: in runs that are never forced, a batch id is submitted a second time
\* only when state.json holds its record as failed.
C6_NoDuplicateSubmission ==
    [][(jobs' # jobs /\ \E j \in 1..Len(jobs) : get_batch_id(jobs[j]) = batch_id)
       => BatchGet(disk.batches, batch_id).status = "failed"]_vars

\* C7: a URL is reported as confirmed-deleted only after it was missing from
\* DELETION_MISS_THRESHOLD consecutive discovering runs.
C7_Hysteresis ==
    \A u \in urls_to_delete : missStreak[u] >= DELETION_MISS_THRESHOLD

\* C8: after a run whose discovered list holds a URL, state.json has no
\* candidate for that URL, and the misses of a candidate are those since the
\* URL was last discovered.
C8_ReappearanceResets ==
    pc = "idle" =>
        /\ \A u \in SeqToSet(mapFile) : u \notin DOMAIN disk.deletion_candidates
        /\ \A u \in DOMAIN disk.deletion_candidates : Misses(u) <= missStreak[u]

\* C9: whenever a save_state call is interrupted or completes, state.json
\* is what it was when the call began or the complete text of the new
\* document, never a part of a text, and that is what a later load_state
\* reads.
C9_SaveAtomic ==
    /\ files[StatePath] \in {before, Complete(save_doc)}
    /\ ~Partial(files[StatePath])
    /\ loaded # NotLoaded =>
          loaded \in {load_state(before), load_state(Complete(save_doc))}

\* C9's case: a save_state call was killed while it wrote the temporary
\* file, and the load_state after it returned the previous document
C9_Witness ==
    /\ save_pc = "idle"
    /\ Partial(files[temp_path(StatePath)])
    /\ files[temp_path(StatePath)].written > 0
    /\ before.kind = "text"
    /\ save_doc # before.doc
    /\ loaded = Returned(before.doc)

\* C10: whatever state.json holds, load_state does not raise, and for a
\* file that is missing or is not the text of a state document it returns
\* the default document.
C10_LoadNeverFails ==
    loaded # NotLoaded =>
        /\ loaded.raised = ""
        /\ files[StatePath] # Complete(files[StatePath].doc) =>
              loaded = Returned(EmptyState)

\* C11: for any two URL lists, compare_maps returns new = discovered minus
\* cached, unchanged = discovered and cached, deleted = cached minus
\* discovered (as sets); new and unchanged make up the discovered set,
\* unchanged and deleted the cached set, and the three are pairwise disjoint.
C11_CompareMaps ==
    called = "compare_maps" =>
        LET discovered == SeqToSet(args[1])
            cached == SeqToSet(args[2])
            New == SeqToSet(ret.new)
            Unchanged == SeqToSet(ret.unchanged)
            Removed == SeqToSet(ret.deleted)
        IN /\ New = discovered \ cached
           /\ Unchanged = discovered \cap cached
           /\ Removed = cached \ discovered
           /\ New \cup Unchanged = discovered
           /\ Unchanged \cup Removed = cached
           /\ New \cap Unchanged = {}
           /\ New \cap Removed = {}
           /\ Unchanged \cap Removed = {}

\* C11's case: compare_maps has returned three non-empty lists
C11_Witness ==
    /\ called = "compare_maps"
    /\ ret.new # <<>>
    /\ ret.unchanged # <<>>
    /\ ret.deleted # <<>>

\* Occurrences of u in a list
RECURSIVE Count(_, _)
Count(s, u) ==
    IF s = <<>> THEN 0
    ELSE (IF Head(s) = u THEN 1 ELSE 0) + Count(Tail(s), u)

IsPermutation(s, t) == \A u \in URLs : Count(s, u) = Count(t, u)

\* C12: get_batch_id gives two lists that are permutations of each other
\* the same id, and two lists with different sets of members different ids.
C12_BatchIdPermutation ==
    called = "get_batch_id" =>
        /\ IsPermutation(args[1], args[2]) => ret[1] = ret[2]
        /\ SeqToSet(args[1]) # SeqToSet(args[2]) => ret[1] # ret[2]

\* C12's case: the ids of two different lists with the same members
C12_Witness ==
    /\ called = "get_batch_id"
    /\ args[1] # args[2]
    /\ IsPermutation(args[1], args[2])
    /\ ret[1] = ret[2]

\* C13: a --skip-scrape run makes no remote call and leaves state.json and
\* map-urls.txt as they are.
C13_CacheOnlyFrame ==
    [][(skip_scrape \/ skip_scrape')
       => /\ disk' = disk
          /\ mapFile' = mapFile
          /\ jobs' = jobs
          /\ skip_scrape' => calls' = NoCalls]_vars

\* C13's case: a --skip-scrape run that found pages in state.json is done
C13_Witness ==
    /\ skip_scrape
    /\ pc = "done"
    /\ disk.batches # <<>>
    /\ pages # <<>>

\* C14: the pages of a --skip-scrape run are those of the last discovered
\* URLs: every page's URL is in the persisted map, and every URL of the map
\* with a page in a completed batch is among them.
C14_CacheOnlyLastKnown ==
    (skip_scrape /\ pc \in {"assemble", "done"}) =>
        /\ PageURLs(pages) \subseteq SeqToSet(mapFile) \cup SeqToSet(disk.map.urls)
        /\ SeqToSet(mapFile) \cap Fetched(disk) \subseteq PageURLs(pages)

\* C15: a --force-refresh run has no confirmed deletion and removes no
\* page file.
C15_FullRefreshDeletesNothing ==
    [][/\ force_refresh' => urls_to_delete' = {}
       /\ force_refresh => pageFiles \subseteq pageFiles']_vars

\* C15's case: a --force-refresh run has saved its map while a URL it did
\* not discover is one miss short of the threshold
C15_Witness ==
    /\ force_refresh
    /\ pc = "saved"
    /\ "A" \notin SeqToSet(map_result.urls)
    /\ Misses("A") = DELETION_MISS_THRESHOLD - 1

\* The URLs of the records that state.json held when the run started
OldPages == UNION {SeqToSet(atStart[i].pages) : i \in 1..Len(atStart)}
OldJobs == {atStart[i].firecrawl_batch_id : i \in 1..Len(atStart)}

C17_IncrementalOnlyNew ==
    [][(~force_refresh /\ jobs' # jobs)
       => SeqToSet(jobs'[Len(jobs')])
             \subseteq SeqToSet(map_result.urls) \ SeqToSet(mapAtStart)]_vars

\* C17's case: an incremental run that found an unchanged URL next to a new
\* one has submitted a batch
C17_Witness ==
    /\ ~force_refresh
    /\ pc = "submitted"
    /\ map_result.unchanged_urls # <<>>
    /\ calls.submit # {}

\* C18: map-urls.txt is overwritten only once the run's batches have been
\* processed, and at the end of the run it holds the run's discovered list.
C18_MapOverwrittenAtEnd ==
    /\ (~skip_scrape /\ pc \in {"mapped", "saved", "batch", "submitted", "poll",
                                "collect", "collected"})
          => mapFile = mapAtStart
    /\ (~skip_scrape /\ pc = "done") => mapFile = map_result.urls

\* The record of the n-th batch of this run in a state document
RecordOf(doc, n) == BatchGet(doc.batches, get_batch_id(BatchURLs(urls_to_scrape, n)))

\* The pages of the completed ones among the first n batches of this run
RECURSIVE PagesUpTo(_)
PagesUpTo(n) ==
    IF n = 0 THEN <<>>
    ELSE PagesUpTo(n - 1)
         \o (IF RecordOf(state, n).status = "completed"
             THEN RecordOf(state, n).pages ELSE <<>>)

\* C19: the step that records a batch as failed goes on to the next batch
\* with the pages collected so far, and when batch_scrape returns every
\* batch has been processed (completed or failed) and the result is made of
\* the pages of every completed batch.
C19_FailureIsolation ==
    /\ [](pc = "scraped" /\ urls_to_scrape # <<>>
          => /\ \A n \in 1..NumBatches(urls_to_scrape) :
                   RecordOf(state, n).status \in {"completed", "failed"}
             /\ all_pages = PagesUpTo(NumBatches(urls_to_scrape)))
    /\ [][(/\ pc \in {"batch", "poll"}
           /\ InBatch \/ pc = "poll"
           /\ state' # state
           /\ BatchGet(state'.batches, batch_id).status = "failed")
          => /\ pc' = "batch"
             /\ batch_num' = batch_num + 1
             /\ all_pages' = all_pages]_vars

\* C19's case: batch_scrape has returned the pages of its second batch
\* after its first batch failed
C19_Witness ==
    /\ pc = "scraped"
    /\ NumBatches(urls_to_scrape) = 2
    /\ RecordOf(state, 1).status = "failed"
    /\ RecordOf(state, 2).status = "completed"
    /\ all_pages = RecordOf(state, 2).pages
    /\ all_pages # <<>>

\* C20: when the submit call of a batch raises, the batch is saved in
\* state.json as failed with the error and without a remote job id, no poll
\* is issued and the loop goes to the next batch; a batch is polled only
\* while its record is polling.
C20_SubmitFailure ==
    /\ [](pc \in {"poll", "collect", "collected"}
          => /\ batch_state.status = "polling"
             /\ batch_state.firecrawl_batch_id = firecrawl_batch_id)
    /\ [][(MustSubmit /\ calls'.submit # calls.submit /\ jobs' = jobs)
          => /\ BatchGet(disk'.batches, batch_id).status = "failed"
             /\ BatchGet(disk'.batches, batch_id).error # ""
             /\ BatchGet(disk'.batches, batch_id).firecrawl_batch_id = 0
             /\ calls'.poll = calls.poll
             /\ pc' = "batch"
             /\ batch_num' = batch_num + 1]_vars

\* C20's case: the submit call of the previous batch raised
C20_Witness ==
    /\ pc = "batch"
    /\ batch_num > 1
    /\ RecordOf(disk, batch_num - 1).error = "submit_error"
    /\ RecordOf(disk, batch_num - 1).firecrawl_batch_id = 0
    /\ calls.submit # {}
    /\ calls.poll = {}

\* C21: a failed record is never taken for a completed one: every step of
\* batch_scrape at a batch whose record is failed is a new submit call for
\* that batch id, no poll is issued by it, the cached pages are not used,
\* and the remote job that is polled afterwards is the newly submitted one,
\* never the job id the failed record holds.
C21_FailedResubmitted ==
    [][(InBatch /\ batch_state.status = "failed" /\ pc' # "idle")
         => /\ batch_id \notin calls.submit
            /\ calls'.submit = calls.submit \cup {batch_id}
            /\ calls'.poll = calls.poll
            /\ all_pages' = all_pages
            /\ pc' \in {"submitted", "batch"}
            /\ pc' = "submitted"
                 => /\ firecrawl_batch_id' = Len(jobs')
                    /\ Len(jobs') = Len(jobs) + 1
                    /\ firecrawl_batch_id' # batch_state.firecrawl_batch_id]_vars

\* A batch whose failed record holds a remote job id (its poll had failed)
\* has been submitted again in an incremental run and has a new remote job
C21_Witness ==
    /\ ~force_refresh
    /\ pc = "submitted"
    /\ HasBatch(atStart, batch_id)
    /\ BatchGet(atStart, batch_id).status = "failed"
    /\ BatchGet(atStart, batch_id).firecrawl_batch_id # 0
    /\ BatchGet(atStart, batch_id).firecrawl_batch_id # firecrawl_batch_id
    /\ batch_id \in calls.submit

\* C22: once the elapsed time of a batch's poll loop has reached the
\* maximum, the next step of the run issues no remote call: it saves the
\* batch as failed with the error poll_timeout and goes on to the next
\* batch; and whenever poll_timeout is recorded, that step issues no call.
C22_PollTimeout ==
    /\ [][(pc = "poll" /\ elapsed = MaxPollTicks /\ pc' # "idle")
            => /\ calls' = calls
               /\ RecordOf(disk', batch_num).status = "failed"
               /\ RecordOf(disk', batch_num).error = "poll_timeout"
               /\ pc' = "batch"
               /\ batch_num' = batch_num + 1]_vars
    /\ [][(pc = "poll" /\ disk' # disk /\ pc' # "idle"
            /\ RecordOf(disk', batch_num).error = "poll_timeout")
            => /\ calls' = calls
               /\ pc' = "batch"
               /\ batch_num' = batch_num + 1]_vars

\* A batch that was polled has timed out and the loop is at the next batch
C22_Witness ==
    /\ pc = "batch"
    /\ batch_num > 1
    /\ RecordOf(disk, batch_num - 1).status = "failed"
    /\ RecordOf(disk, batch_num - 1).error = "poll_timeout"
    /\ RecordOf(disk, batch_num - 1).firecrawl_batch_id \in calls.poll

\* C23: a record of state.json is completed only with the pages of every
\* result page of its remote job.
C23_CompletedHasEveryPage ==
    \A i \in 1..Len(disk.batches) :
        disk.batches[i].status = "completed"
          => disk.batches[i].pages =
               JobPages(disk.batches[i].firecrawl_batch_id,
                        jobs[disk.batches[i].firecrawl_batch_id])

\* The failures the claim names as transient, and a 4xx other than 429
Transient(exception) ==
    \/ exception.type \in {"Timeout", "ConnectionError"}
    \/ exception.type = "HTTPError" /\ exception.status \in {429, 500, 502, 503, 504}
ClientError(exception) ==
    /\ exception.type = "HTTPError"
    /\ exception.status \in 400..499
    /\ exception.status # 429

\* C24: each of the four remote calls is attempted at most 5 times, all of
\* them when every attempt fails with a timeout, a connection failure, 429
\* or a transient 5xx; an attempt that fails with a 4xx other than 429 is
\* the last one (the only one when it is the first failure); and when the
\* attempts end in a failure, the caller receives the exception of the last
\* attempt.
C24_BoundedRetry ==
    /\ attempt_number <= 5
    /\ Len(raised) <= attempt_number
    /\ \A i \in 1..Len(raised) :
          /\ ClientError(raised[i]) =>
                /\ i = Len(raised)
                /\ attempt_number = i
                /\ outcome = "raised"
                /\ propagated = raised[i]
          /\ i < Len(raised) => Transient(raised[i])
    /\ (Len(raised) = 5 /\ \A i \in 1..5 : Transient(raised[i]))
          => attempt_number = 5 /\ outcome = "raised"
    /\ outcome = "raised" =>
          /\ raised # <<>>
          /\ propagated = raised[Len(raised)]
          /\ Len(raised) = attempt_number
    /\ outcome = "" => propagated = NoException

\* A poll call has failed five times with transient errors and the caller
\* has received the last of them
C24_Witness ==
    /\ api_call = "_batch_poll_api_call"
    /\ outcome = "raised"
    /\ Len(raised) = 5
    /\ raised[1] = Timeout
    /\ raised[2] = HTTPError(429)
    /\ propagated = HTTPError(503)

\* The pages state.json holds for the completed ones among the first n
\* batches of this run, batch after batch
RECURSIVE ResultsUpTo(_)
ResultsUpTo(n) ==
    IF n = 0 THEN <<>>
    ELSE ResultsUpTo(n - 1)
         \o (IF RecordOf(disk, n).status = "completed"
             THEN RecordOf(disk, n).pages ELSE <<>>)

\* The batch of this run a URL belongs to
ChunkOf(u) ==
    CHOOSE n \in 0..NumBatches(urls_to_scrape) :
        n > 0 => u \in SeqToSet(BatchURLs(urls_to_scrape, n))

\* C25: what batch_scrape returns is the concatenation, in batch order, of
\* the pages of the batches that state.json holds as completed when it
\* returns, cached or newly completed; no page of a batch left failed is in
\* it.
C25_ResultOfCompleted ==
    (pc = "scraped" /\ urls_to_scrape # <<>>) =>
        /\ all_pages = ResultsUpTo(NumBatches(urls_to_scrape))
        /\ \A i, j \in 1..Len(all_pages) :
              i < j => ChunkOf(all_pages[i].sourceURL) <= ChunkOf(all_pages[j].sourceURL)
        /\ \A n \in 1..NumBatches(urls_to_scrape) :
              RecordOf(disk, n).status # "completed" =>
                  /\ RecordOf(disk, n).status = "failed"
                  /\ PageURLs(all_pages) \cap SeqToSet(BatchURLs(urls_to_scrape, n)) = {}

\* batch_scrape has returned the pages of its two batches, both completed
C25_Witness ==
    /\ pc = "scraped"
    /\ NumBatches(urls_to_scrape) = 2
    /\ RecordOf(disk, 1).status = "completed"
    /\ RecordOf(disk, 2).status = "completed"
    /\ Len(all_pages) = 2
    /\ all_pages[1].sourceURL = "A"
    /\ all_pages[2].sourceURL = "B"

\* C26: when batches of a run have failed, what the caller receives from
\* batch_scrape names, besides the pages of the batches that succeeded,
\* the URLs that were not fetched.
C26_IncompleteReported ==
    (pc = "scraped" /\ urls_to_scrape # <<>>) =>
        \A n \in 1..NumBatches(urls_to_scrape) :
            RecordOf(disk, n).status = "failed" =>
                SeqToSet(BatchURLs(urls_to_scrape, n)) \subseteq PageURLs(new_pages)

\* C27: the merged page list of a run, in any mode and after any runs,
\* holds each URL at most once.
C27_MergedOncePerURL ==
    pc \in {"assemble", "done"} =>
        \A i, j \in 1..Len(pages) :
            pages[i].sourceURL = pages[j].sourceURL => i = j

\* C28: at the end of an incremental run the merged page list holds, for
\* every Unchanged URL (discovered and in the last-known list), a page that
\* a completed record of state.json holds.
C28_UnchangedFromCache ==
    IncrementalDone =>
        \A u \in SeqToSet(map_result.unchanged_urls) :
            \E i \in 1..Len(pages) :
                /\ pages[i].sourceURL = u
                /\ \E k \in 1..Len(disk.batches) :
                      /\ disk.batches[k].status = "completed"
                      /\ pages[i] \in SeqToSet(disk.batches[k].pages)

\* The record state.json holds for the batch in progress
saved_batch == BatchGet(disk.batches, batch_id)

\* C29: a poll call for a remote job is issued only when state.json already
\* holds, under the batch id, a record with status polling and the id of
\* that job: so it is throughout the poll loop, and so it is before every
\* step that polls a job.
C29_PersistBeforePoll ==
    /\ [](pc = "poll" =>
            /\ HasBatch(disk.batches, batch_id)
            /\ saved_batch.status = "polling"
            /\ saved_batch.firecrawl_batch_id = firecrawl_batch_id
            /\ firecrawl_batch_id # 0)
    /\ [][calls'.poll # calls.poll /\ pc' # "idle" =>
            /\ pc = "poll"
            /\ calls'.poll = calls.poll \cup {saved_batch.firecrawl_batch_id}
            /\ saved_batch.status = "polling"]_vars

\* A newly submitted job has been polled and is polled again
C29_Witness ==
    /\ pc = "poll"
    /\ elapsed > 0
    /\ firecrawl_batch_id \in calls.poll
    /\ batch_id \in calls.submit
    /\ saved_batch.status = "polling"

\* C30: whenever batch_scrape is about to issue a remote call, to sleep or
\* to go to the next batch, the records of state.json are the records of
\* the state in memory.
C30_PersistedImmediately ==
    pc \in {"batch", "submitted", "poll", "collect", "collected"} =>
        disk.batches = state.batches

\* batch_scrape has recorded the failure of its batch in this call and is
\* about to go to the next batch
C30_Witness ==
    /\ pc = "batch"
    /\ batch_num > 1
    /\ disk.batches = state.batches
    /\ disk.batches # atStart
    /\ RecordOf(disk, batch_num - 1).status = "failed"
    /\ RecordOf(disk, batch_num - 1).error = "batch_failed"

\* C31: every record of state.json has one of the statuses polling,
\* completed and failed; it has pages only when it is completed and an error
\* only when it is failed, and a polling record holds a remote job id.
C31_RecordShape ==
    \A i \in 1..Len(disk.batches) :
        LET rec == disk.batches[i]
        IN /\ rec.status \in {"polling", "completed", "failed"}
           /\ rec.pages # <<>> => rec.status = "completed"
           /\ rec.error # "" => rec.status = "failed"
           /\ rec.status = "polling" => rec.firecrawl_batch_id # 0

\* A --force-refresh run has replaced a completed record that had pages by
\* the record of a new job, which then timed out: failed, no pages
C31_Witness ==
    /\ force_refresh
    /\ pc = "batch"
    /\ \E i \in 1..Len(atStart) :
          /\ atStart[i].status = "completed"
          /\ atStart[i].pages # <<>>
          /\ HasBatch(disk.batches, atStart[i].batch_id)
          /\ BatchGet(disk.batches, atStart[i].batch_id).status = "failed"
          /\ BatchGet(disk.batches, atStart[i].batch_id).error = "poll_timeout"
          /\ BatchGet(disk.batches, atStart[i].batch_id).pages = <<>>

\* The three steps of the reference, on sets of URLs
WithoutDiscovered(candidates, discovered) ==
    [u \in (DOMAIN candidates) \ discovered |-> candidates[u]]
WithMisses(candidates, removed, now) ==
    [u \in (DOMAIN candidates) \cup removed |->
        IF u \notin removed THEN candidates[u]
        ELSE IF u \in DOMAIN candidates
             THEN [consecutive_misses |-> candidates[u].consecutive_misses + 1,
                   first_missing_at |-> candidates[u].first_missing_at,
                   last_missing_at |-> now]
             ELSE [consecutive_misses |-> 1, first_missing_at |-> now,
                   last_missing_at |-> now]]
Confirmed(candidates) ==
    {u \in DOMAIN candidates :
        ~(candidates[u].consecutive_misses < DELETION_MISS_THRESHOLD)}

\* C32: update_deletion_candidates equals the reference of three steps:
\* drop the candidates that are discovered; add 1 to the misses of every
\* removed URL that is a candidate, keeping the time it was first missing,
\* and create the others with 1 miss; return and drop exactly the
\* candidates with at least threshold misses, so that every candidate left
\* has between 1 and threshold - 1 misses.
C32_HysteresisReference ==
    called = "update_deletion_candidates" =>
        LET step1 == WithoutDiscovered(args[1], SeqToSet(args[3]))
            step2 == WithMisses(step1, SeqToSet(args[2]), args[4])
        IN /\ ret.urls_to_delete = Confirmed(step2)
           /\ DOMAIN ret.candidates = (DOMAIN step2) \ Confirmed(step2)
           /\ \A u \in DOMAIN ret.candidates :
                 /\ ret.candidates[u] = step2[u]
                 /\ ret.candidates[u].consecutive_misses >= 1
                 /\ ret.candidates[u].consecutive_misses < DELETION_MISS_THRESHOLD

\* One call in which a candidate that is discovered again is dropped, a
\* candidate with 2 misses is removed again and returned, and a URL is
\* removed for the first time
C32_Witness ==
    /\ called = "update_deletion_candidates"
    /\ DOMAIN args[1] = {"A", "B"}
    /\ args[1]["A"].consecutive_misses = 2
    /\ args[2] = <<"A", "C">>
    /\ args[3] = <<"B">>
    /\ ret.urls_to_delete = {"A"}
    /\ DOMAIN ret.candidates = {"C"}
    /\ ret.candidates["C"].consecutive_misses = 1

\* The batch ids of state.json and of the state in memory
BatchIds(batches) == {batches[i].batch_id : i \in 1..Len(batches)}

\* C33: a step of batch_scrape at a batch changes, in state.json and in
\* memory, only the record under the id of that batch: every other record
\* stays as it is, none is added or removed, and the record it writes holds
\* the id of the batch and pages of its URLs only.  The records at the end
\* are then the same map whatever the order of the batches.
C33_ChunkIndependence ==
    [][(pc \in {"batch", "submitted", "poll", "collect", "collected"} /\ pc' # "idle")
        => /\ \A id \in (BatchIds(disk.batches) \cup BatchIds(disk'.batches)) \ {batch_id} :
                 BatchGet(disk'.batches, id) = BatchGet(disk.batches, id)
           /\ \A id \in (BatchIds(state.batches) \cup BatchIds(state'.batches)) \ {batch_id} :
                 BatchGet(state'.batches, id) = BatchGet(state.batches, id)
           /\ disk'.batches # disk.batches =>
                 /\ InBatch \/ pc # "batch"
                 /\ BatchGet(disk'.batches, batch_id).batch_id = batch_id
                 /\ PageURLs(BatchGet(disk'.batches, batch_id).pages)
                       \subseteq SeqToSet(batch_urls)]_vars

\* The second batch of a run is being polled while state.json holds the
\* completed record of the first
C33_Witness ==
    /\ pc = "poll"
    /\ batch_num = 2
    /\ RecordOf(disk, 1).status = "completed"
    /\ RecordOf(disk, 1).pages # <<>>
    /\ RecordOf(disk, 2).status = "polling"
    /\ firecrawl_batch_id \in calls.poll

\* C34: whatever the remote service answers, every batch that batch_scrape
\* has submitted ends, after finitely many steps, with a completed or
\* failed record and the loop at the next batch.
C34_BatchTerminates ==
    (pc \in {"submitted", "poll", "collect", "collected"})
        ~> (/\ pc = "batch"
            /\ batch_num > 1
            /\ RecordOf(disk, batch_num - 1).status \in {"completed", "failed"})

\* C35: no step of a --force-refresh run changes the deletion candidates
\* of state.json: none is created, incremented or cleared.
C35_FullRefreshKeepsCandidates ==
    [][force_refresh => disk'.deletion_candidates = disk.deletion_candidates]_vars

C37_MapAndStateTogether ==
    (pc = "idle" /\ mapFile # <<>>) =>
        /\ disk.map.present
        /\ disk.map.urls = mapFile

\* C38: the saves of batch_scrape change only the batches of state.json:
\* no step of it changes the map record or the deletion candidates, and
\* while it runs and when it has returned the map record is the one main
\* wrote for this run's discovered list.
C38_ScrapeKeepsMapAndCandidates ==
    /\ [][(pc \in {"batch", "submitted", "poll", "collect", "collected"})
            => /\ disk'.map = disk.map
               /\ disk'.deletion_candidates = disk.deletion_candidates]_vars
    /\ []((pc \in {"batch", "submitted", "poll", "collect", "collected", "scraped"}
            /\ ~skip_scrape)
           => /\ disk.map = [present |-> TRUE, urls |-> map_result.urls]
              /\ \A u \in DOMAIN disk.deletion_candidates :
                    u \notin SeqToSet(map_result.urls))

\* batch_scrape has returned after saving a completed record; state.json
\* still holds the candidate B and the map record of the run
C38_Witness ==
    /\ pc = "scraped"
    /\ disk.batches # atStart
    /\ RecordOf(disk, 1).status = "completed"
    /\ map_result.urls = <<"A">>
    /\ disk.map.urls = <<"A">>
    /\ DOMAIN disk.deletion_candidates = {"B"}

\* C39: a batch id that has a completed record in state.json keeps a
\* completed record in every later state: no step replaces it by a polling
\* or failed record or removes it.
C39_CompletedStaysCompleted ==
    [][\A i \in 1..Len(disk.batches) :
          disk.batches[i].status = "completed" =>
              BatchGet(disk'.batches, disk.batches[i].batch_id).status = "completed"]_vars

\* C40: when the discovery call of an incremental or --force-refresh run
\* fails, the run ends without a submit call (and without any other call)
\* and leaves state.json, map-urls.txt, the cached pages, the page files
\* and the remote jobs exactly as they were before the run.
C40_DiscoveryFailure ==
    /\ [](pc = "map_failed" =>
            /\ calls.submit = {}
            /\ calls.poll = {}
            /\ calls.page = 0
            /\ disk.batches = atStart
            /\ mapFile = mapAtStart)
    /\ [][(pc' = "map_failed" \/ pc = "map_failed")
            => /\ disk' = disk
               /\ mapFile' = mapFile
               /\ batchResponse' = batchResponse
               /\ pageFiles' = pageFiles
               /\ jobs' = jobs
               /\ calls'.submit = {}
               /\ pc' \in {"map_failed", "idle"}]_vars

\* The discovery call of a --force-refresh run has failed in a workspace
\* that holds a completed batch, a map file and a deletion candidate
C40_Witness ==
    /\ pc = "map_failed"
    /\ force_refresh
    /\ calls.map = 1
    /\ mapFile # <<>>
    /\ disk.map.present
    /\ \E i \in 1..Len(disk.batches) : disk.batches[i].status = "completed"
    /\ DOMAIN disk.deletion_candidates # {}

====
